---------------------------- MODULE Spec2Model ----------------------------
(***************************************************************************)
(* The bulk-job worker of workers/worker.py with the two handlers          *)
(* workers/find_emails.py and workers/find_decision_makers.py.             *)
(*                                                                         *)
(* State: the bulk_jobs table, the leads table, and for every dispatcher   *)
(* process its position in main() and the locals of the handler it runs.   *)
(* The store (Supabase), its stored procedure claim_next_bulk_job and the  *)
(* handler base class (base.SupabaseWorkerBase) are not part of the        *)
(* sources; they are modelled from the specification's sections 4.1, 4.3.  *)
(***************************************************************************)
EXTENDS Integers, Sequences, FiniteSets, TLC

VARIABLES
    jobs,       \* bulk_jobs: job id -> row
    leads,      \* leads: lead id -> row
    pc,         \* process -> position in main()
    cur,        \* process -> id of the job held in the local `job` (0: none)
    exc,        \* process -> str(e) of the exception caught at worker.py:117
    h,          \* process -> locals of the running handler
    holders,    \* history: job id -> the processes the job was returned to since it last became pending, in order
    orphaned,   \* history: the jobs that were running when the model starts
    recovered,  \* history: process -> outcome of its recover_orphaned_jobs call
    made,       \* history: the jobs a handler object was constructed for
    nclaims,    \* history: process -> number of jobs claim_next_bulk_job returned to it
    caught,     \* history: process -> whether it has caught an exception of a handler's run()
    survived,   \* history: the jobs that ended done in a process that had caught one before
    sleeping,   \* process -> seconds of the time.sleep call it is in (0: none)
    stale       \* history: the leads updated from a fetched row that lacked another stage's outcome the store held

vars == <<jobs, leads, pc, cur, exc, h, holders, orphaned, recovered, made, nclaims, caught, survived,
          sleeping, stale>>

-----------------------------------------------------------------------------
(* Bounds of the model *)

\* rows of bulk_jobs in the main specification
NumJobs == 1
\* rows of bulk_jobs in the queue specification
QueueJobs == 2
\* rows of leads in the queue specification
QueueLeads == 1
\* rows of bulk_jobs in the two-process specification
MultiJobs == 1
\* rows of leads in the main specification
NumLeads == 2
\* rows of leads in the thread-pool specification
PoolLeads == 6
\* the max_leads a job sets when it does not use the default
SmallCap == 1
\* rows of leads in the progress-cadence specification
CadenceLeads == 5
\* rows of leads in the two-stage specification
StageLeads == 1

(* Program constants *)

CONCURRENT_REQUESTS == 5
DefaultMaxLeads == 100
EmailCadence == 10
DecisionMakerCadence == 5
POLL_INTERVAL == 5

NULL == "null"
NOW == "now"

JOB_HANDLERS ==
    {"scrape_maps", "find_emails", "find_decision_makers", "anymail_emails", "clean_leads"}

\* The job types the model submits: the two handlers of the sources and one
\* type that the registry does not know.
JobTypes == {"find_emails", "find_decision_makers", "unknown_type"}

Min(a, b) == IF a < b THEN a ELSE b

-----------------------------------------------------------------------------
(* Values *)

\* A map with the keys `keys`; the fields outside `keys` are 0.
EmptyMap == [keys |-> {}, processed |-> 0, total |-> 0, extra |-> 0]

\* update_progress(processed, total): {"processed": .., "total": ..}
Progress2(p, t) == [keys |-> {"processed", "total"}, processed |-> p, total |-> t, extra |-> 0]

Progress3Remaining(p, t, k, n) ==
    [keys |-> {"processed", "total", k}, processed |-> t - p, total |-> t, extra |-> n]

Progress3Swapped(p, t, k, n) ==
    [keys |-> {"processed", "total", k}, processed |-> n, total |-> t, extra |-> p]

\* update_progress(processed, total, enriched=n) or (.., found=n)
Progress3(p, t, k, n) ==
    [keys |-> {"processed", "total", k}, processed |-> p, total |-> t, extra |-> n]

\* complete({"processed": 0, "message": msg})
ResultNone == [keys |-> {"processed", "message"}, processed |-> 0, total |-> 0, extra |-> 0]

\* complete({"processed": p, k: n, "total": t})
ResultOf(p, t, k, n) ==
    [keys |-> {"processed", "total", k}, processed |-> p, total |-> t, extra |-> n]

\* str(e) of the exception a store call raises
StoreError(call) == <<"store unavailable: ", call>>

StoreCalls == {"fail", "select", "update_progress", "update_lead", "complete"}

UnknownTypeMessageBare(job_type) == <<"Unknown job type">>

\* f"Unknown job type: {job_type}"
UnknownTypeMessage(job_type) == <<"Unknown job type: ", job_type>>

HandlerIdle ==
    [hpc |-> "idle", batch |-> <<>>, task |-> <<>>, processed |-> 0, count |-> 0,
     pend |-> "none", writes |-> 0]

Procs == DOMAIN pc
JobIds == DOMAIN jobs
LeadIds == DOMAIN leads


-----------------------------------------------------------------------------
(* Job configuration: self.config.get(key, default) *)

NoConfig == [keys |-> {}, max_leads |-> 0, include_existing |-> FALSE, validated_only |-> FALSE]

CapConfig == [NoConfig EXCEPT !.keys = {"max_leads"}, !.max_leads = SmallCap]

ConfigMaxLeads(cfg) == IF "max_leads" \in cfg.keys THEN cfg.max_leads ELSE DefaultMaxLeads

ConfigIncludeExisting(cfg) ==
    IF "include_existing" \in cfg.keys THEN cfg.include_existing ELSE FALSE

ConfigValidatedOnly(cfg) ==
    IF "validated_only" \in cfg.keys THEN cfg.validated_only ELSE TRUE

-----------------------------------------------------------------------------
(* The bulk_jobs table *)

ABSENT == "absent"

\* A row as the program leaves it in `status`: a pending job was never claimed
\* (or was reset), a running one was claimed and reported progress, a done one
\* was claimed and completed.
JobRow(type, status, cfg) ==
    [type |-> type, status |-> status, config |-> cfg, campaign_id |-> 1,
     started_at |-> IF status = "pending" THEN NULL ELSE NOW,
     progress |-> IF status = "pending" THEN EmptyMap ELSE Progress2(0, 1),
     result |-> IF status = "done" THEN ResultNone ELSE EmptyMap,
     error |-> <<>>]

\* The rows claim_next_bulk_job chooses among.
ClaimCandidatesAny == {j \in JobIds : jobs[j].status \in {"pending", "running"}}

ClaimCandidates == {j \in JobIds : jobs[j].status = "pending"}

\* claim_next_bulk_job, on the row it chose: pending -> running, started_at set.
ClaimRow(j) == [jobs EXCEPT ![j].status = "running", ![j].started_at = NOW]

\* update({"status": "pending", "started_at": None, "progress": {}}) with no filter
ResetEveryRow ==
    [j \in JobIds |->
        [jobs[j] EXCEPT !.status = "pending", !.started_at = NULL, !.progress = EmptyMap]]

\* update({"status": "pending", "progress": {}}).eq("status", "running")
ResetRunningKeepStart ==
    [j \in JobIds |->
        IF jobs[j].status = "running"
        THEN [jobs[j] EXCEPT !.status = "pending", !.progress = EmptyMap]
        ELSE jobs[j]]

\* update({"status": "pending", "started_at": None}).eq("status", "running")
ResetRunningKeepProgress ==
    [j \in JobIds |->
        IF jobs[j].status = "running"
        THEN [jobs[j] EXCEPT !.status = "pending", !.started_at = NULL]
        ELSE jobs[j]]

\* update({"status": "pending", "started_at": None, "progress": {}}).eq("status", "running")
ResetRunning ==
    [j \in JobIds |->
        IF jobs[j].status = "running"
        THEN [jobs[j] EXCEPT !.status = "pending", !.started_at = NULL, !.progress = EmptyMap]
        ELSE jobs[j]]

\* update({"status": "failed", "error": f"Unknown job type: {job_type}"}).eq("id", job_id)
MarkUnknownFailed(j) ==
    [jobs EXCEPT ![j].status = "failed", ![j].error = UnknownTypeMessage(jobs[j].type)]

FailGeneric(j, message) == [jobs EXCEPT ![j].status = "failed", ![j].error = <<"error">>]

\* SupabaseWorkerBase.fail(message)
Fail(j, message) == [jobs EXCEPT ![j].status = "failed", ![j].error = message]

\* SupabaseWorkerBase.complete(result)
Complete(j, result) == [jobs EXCEPT ![j].status = "done", ![j].result = result]

\* SupabaseWorkerBase.update_progress(processed, total, **extra)
UpdateProgress(j, progress) == [jobs EXCEPT ![j].progress = progress]


-----------------------------------------------------------------------------
(* The leads table *)

\* enrichment_status: stage -> outcome, ABSENT for a key the map does not hold
NoStatus == [website_validated |-> ABSENT, find_emails |-> ABSENT, find_decision_makers |-> ABSENT]

Stages == {"website_validated", "find_emails", "find_decision_makers"}

LeadRow(website) ==
    [campaign_id |-> 1, website |-> website, email |-> NULL, decision_maker_name |-> NULL,
     enrichment_status |-> [NoStatus EXCEPT !.website_validated = "true"]]

\* A partial update of a lead: the fields it sets and their values.
NoUpdates == [fields |-> {}, email |-> NULL, decision_maker_name |-> NULL,
              enrichment_status |-> NoStatus]

\* The key-wise union of two status maps, the keys of `new` winning.
MergeStatus(old, new) ==
    [k \in Stages |-> IF new[k] # ABSENT THEN new[k] ELSE old[k]]

UpdateLeadReplacing(l, updates) ==
    [leads EXCEPT ![l] =
        [campaign_id |-> @.campaign_id,
         website |-> @.website,
         email |-> IF "email" \in updates.fields THEN updates.email ELSE @.email,
         decision_maker_name |->
            IF "decision_maker_name" \in updates.fields
            THEN updates.decision_maker_name ELSE @.decision_maker_name,
         enrichment_status |->
            IF "enrichment_status" \in updates.fields
            THEN updates.enrichment_status ELSE @.enrichment_status]]

\* SupabaseWorkerBase.update_lead(lead_id, updates)
UpdateLead(l, updates) ==
    [leads EXCEPT ![l] =
        [campaign_id |-> @.campaign_id,
         website |-> @.website,
         email |-> IF "email" \in updates.fields THEN updates.email ELSE @.email,
         decision_maker_name |->
            IF "decision_maker_name" \in updates.fields
            THEN updates.decision_maker_name ELSE @.decision_maker_name,
         enrichment_status |->
            IF "enrichment_status" \in updates.fields
            THEN MergeStatus(@.enrichment_status, updates.enrichment_status)
            ELSE @.enrichment_status]]

\* The rows the handler's query matches, before LIMIT.
Matching(j, field) ==
    {l \in LeadIds :
        /\ leads[l].campaign_id = jobs[j].campaign_id
        /\ ConfigIncludeExisting(jobs[j].config) \/ leads[l][field] = NULL
        /\ ConfigValidatedOnly(jobs[j].config)
              => leads[l].enrichment_status.website_validated = "true"}

RECURSIVE SortedSeq(_)
\* The ids of a set in increasing order.
SortedSeq(S) ==
    IF S = {} THEN <<>>
    ELSE LET m == CHOOSE x \in S : \A y \in S : x <= y
         IN <<m>> \o SortedSeq(S \ {m})

\* The rows as the handler holds them: the id and the row as it was read.
Snapshot(ids) == [i \in 1..Len(ids) |-> [id |-> ids[i], row |-> leads[ids[i]]]]

SelectSeqWebsite(rows) == SelectSeq(rows, LAMBDA r : r.row.website)

\* query.limit(max_leads).execute(), then the filter on company_website / domain
FetchBatch(j, field) ==
    LET ids == SortedSeq(Matching(j, field))
        n == Min(ConfigMaxLeads(jobs[j].config), Len(ids))
    IN SelectSeqWebsite(Snapshot(SubSeq(ids, 1, n)))


-----------------------------------------------------------------------------
(* main(): startup and the polling loop *)

hist == <<holders, orphaned, recovered, made, nclaims, caught, survived, sleeping, stale>>

BackoffIntervalShort == POLL_INTERVAL

\* POLL_INTERVAL * 2
BackoffInterval == POLL_INTERVAL * 2

\* except Exception: the loop logs the error and calls time.sleep(POLL_INTERVAL * 2)
EnterBackoff(p) ==
    /\ pc' = [pc EXCEPT ![p] = "backoff"]
    /\ sleeping' = [sleeping EXCEPT ![p] = BackoffInterval]

\* recover_orphaned_jobs(db): the update, or its exception logged and dropped
RecoverOrphanedJobs(p) ==
    /\ pc[p] = "recover"
    /\ \/ /\ jobs' = ResetRunning
          /\ holders' = [j \in JobIds |-> IF jobs[j].status = "running" THEN <<>> ELSE holders[j]]
          /\ recovered' = [recovered EXCEPT ![p] = "ok"]
       \/ /\ recovered' = [recovered EXCEPT ![p] = "failed"]
          /\ UNCHANGED <<jobs, holders>>
    /\ pc' = [pc EXCEPT ![p] = "claim"]
    /\ UNCHANGED <<leads, cur, exc, h, orphaned, made, nclaims, caught, survived, sleeping, stale>>

\* db.rpc("claim_next_bulk_job").execute() returning a job
ClaimJob(p) ==
    /\ pc[p] = "claim"
    /\ \E j \in ClaimCandidates :
          /\ jobs' = ClaimRow(j)
          /\ cur' = [cur EXCEPT ![p] = j]
          /\ holders' = [holders EXCEPT ![j] = Append(@, p)]
    /\ nclaims' = [nclaims EXCEPT ![p] = @ + 1]
    /\ pc' = [pc EXCEPT ![p] = "dispatch"]
    /\ UNCHANGED <<leads, exc, h, orphaned, recovered, made, caught, survived, sleeping, stale>>

\* the claim returning no job: time.sleep(POLL_INTERVAL); continue
ClaimNone(p) ==
    /\ pc[p] = "claim"
    /\ ClaimCandidates = {}
    /\ pc' = [pc EXCEPT ![p] = "sleep"]
    /\ sleeping' = [sleeping EXCEPT ![p] = POLL_INTERVAL]
    /\ UNCHANGED <<jobs, leads, cur, exc, h, <<holders, orphaned, recovered, made, nclaims, caught, survived, stale>>>>

\* the claim raising: except Exception, then time.sleep(POLL_INTERVAL * 2)
ClaimRaises(p) ==
    /\ pc[p] = "claim"
    /\ EnterBackoff(p)
    /\ UNCHANGED <<jobs, leads, cur, exc, h, <<holders, orphaned, recovered, made, nclaims, caught, survived, stale>>>>

\* time.sleep(POLL_INTERVAL) returning
PollSleep(p) ==
    /\ pc[p] = "sleep"
    /\ pc' = [pc EXCEPT ![p] = "claim"]
    /\ sleeping' = [sleeping EXCEPT ![p] = 0]
    /\ UNCHANGED <<jobs, leads, cur, exc, h, <<holders, orphaned, recovered, made, nclaims, caught, survived, stale>>>>

\* time.sleep(POLL_INTERVAL * 2) returning, the loop starting over from recovery
BackoffThenRecover(p) ==
    /\ pc[p] = "backoff"
    /\ pc' = [pc EXCEPT ![p] = "recover"]
    /\ sleeping' = [sleeping EXCEPT ![p] = 0]
    /\ UNCHANGED <<jobs, leads, cur, exc, h, <<holders, orphaned, recovered, made, nclaims, caught, survived, stale>>>>

\* time.sleep(POLL_INTERVAL * 2) returning
Backoff(p) ==
    /\ pc[p] = "backoff"
    /\ pc' = [pc EXCEPT ![p] = "claim"]
    /\ sleeping' = [sleeping EXCEPT ![p] = 0]
    /\ UNCHANGED <<jobs, leads, cur, exc, h, <<holders, orphaned, recovered, made, nclaims, caught, survived, stale>>>>

\* JOB_HANDLERS.get(job_type) is None: the job is marked failed; continue
UnknownJobType(p) ==
    /\ pc[p] = "dispatch"
    /\ jobs[cur[p]].type \notin JOB_HANDLERS
    /\ jobs' = MarkUnknownFailed(cur[p])
    /\ pc' = [pc EXCEPT ![p] = "claim"]
    /\ cur' = [cur EXCEPT ![p] = 0]
    /\ UNCHANGED <<leads, exc, h, hist>>

\* the same write raising: caught by the loop's except Exception
UnknownJobTypeRaises(p) ==
    /\ pc[p] = "dispatch"
    /\ jobs[cur[p]].type \notin JOB_HANDLERS
    /\ EnterBackoff(p)
    /\ cur' = [cur EXCEPT ![p] = 0]
    /\ UNCHANGED <<jobs, leads, exc, h, <<holders, orphaned, recovered, made, nclaims, caught, survived, stale>>>>

\* worker = handler_class(job, db); worker.run() is entered
Construct(p) ==
    /\ pc[p] = "dispatch"
    /\ jobs[cur[p]].type \in JOB_HANDLERS
    /\ made' = made \cup {cur[p]}
    /\ h' = [h EXCEPT ![p] = [HandlerIdle EXCEPT !.hpc = "cred"]]
    /\ pc' = [pc EXCEPT ![p] = "run"]
    /\ UNCHANGED <<jobs, leads, cur, exc, holders, orphaned, recovered, nclaims, caught, survived, sleeping, stale>>

\* handler_class(job, db) raising: the call is outside the inner try, so the
\* loop's except Exception catches it and no worker.fail is made.
ConstructRaises(p) ==
    /\ pc[p] = "dispatch"
    /\ jobs[cur[p]].type \in JOB_HANDLERS
    /\ EnterBackoff(p)
    /\ cur' = [cur EXCEPT ![p] = 0]
    /\ UNCHANGED <<jobs, leads, exc, h, <<holders, orphaned, recovered, made, nclaims, caught, survived, stale>>>>

\* except Exception: worker.fail("error")
FailJobGeneric(p) ==
    /\ pc[p] = "fail"
    /\ jobs' = FailGeneric(cur[p], exc[p])
    /\ pc' = [pc EXCEPT ![p] = "claim"]
    /\ cur' = [cur EXCEPT ![p] = 0]
    /\ exc' = [exc EXCEPT ![p] = <<>>]
    /\ UNCHANGED <<leads, h, hist>>

\* except Exception as e: worker.fail(str(e))
FailJob(p) ==
    /\ pc[p] = "fail"
    /\ jobs' = Fail(cur[p], exc[p])
    /\ pc' = [pc EXCEPT ![p] = "claim"]
    /\ cur' = [cur EXCEPT ![p] = 0]
    /\ exc' = [exc EXCEPT ![p] = <<>>]
    /\ UNCHANGED <<leads, h, hist>>

\* worker.fail(str(e)) raising: caught by the loop's except Exception
FailJobRaises(p) ==
    /\ pc[p] = "fail"
    /\ EnterBackoff(p)
    /\ cur' = [cur EXCEPT ![p] = 0]
    /\ exc' = [exc EXCEPT ![p] = <<>>]
    /\ UNCHANGED <<jobs, leads, h, <<holders, orphaned, recovered, made, nclaims, caught, survived, stale>>>>

\* The positions of main() inside the loop's try body, the pool excepted.
InTryBody(p) ==
    \/ pc[p] \in {"claim", "sleep", "dispatch", "fail"}
    \/ pc[p] = "run" /\ h[p].hpc \notin {"pool", "drain"}

\* KeyboardInterrupt inside the try body: except KeyboardInterrupt: break
Interrupt(p) ==
    /\ InTryBody(p)
    /\ pc' = [pc EXCEPT ![p] = "stopped"]
    /\ cur' = [cur EXCEPT ![p] = 0]
    /\ exc' = [exc EXCEPT ![p] = <<>>]
    /\ h' = [h EXCEPT ![p] = HandlerIdle]
    /\ sleeping' = [sleeping EXCEPT ![p] = 0]
    /\ UNCHANGED <<jobs, leads, <<holders, orphaned, recovered, made, nclaims, caught, survived, stale>>>>

\* KeyboardInterrupt outside the try body: during recover_orphaned_jobs, and in
\* the sleep of the except Exception clause. No clause catches it.
InterruptOutside(p) ==
    /\ pc[p] \in {"recover", "backoff"}
    /\ pc' = [pc EXCEPT ![p] = "raised"]
    /\ sleeping' = [sleeping EXCEPT ![p] = 0]
    /\ UNCHANGED <<jobs, leads, cur, exc, h, <<holders, orphaned, recovered, made, nclaims, caught, survived, stale>>>>


-----------------------------------------------------------------------------
(* worker.run(): the part FindEmailsWorker and FindDecisionMakersWorker share *)

Kind(p) == jobs[cur[p]].type

IsEmails(p) == Kind(p) = "find_emails"

\* The column the query tests with is_(.., "null")
OutputField(p) == IF IsEmails(p) THEN "email" ELSE "decision_maker_name"

\* The name of the handler's own counter
CounterName(p) == IF IsEmails(p) THEN "enriched" ELSE "found"

KeyMessage(p) ==
    IF IsEmails(p) THEN <<"OpenWeb Ninja API key not configured">>
    ELSE <<"OpenAI API key not configured">>

At(p, where) == pc[p] = "run" /\ h[p].hpc = where

\* run() returns to the loop, which goes on to its next iteration.
Return(p) ==
    /\ pc' = [pc EXCEPT ![p] = "claim"]
    /\ cur' = [cur EXCEPT ![p] = 0]
    /\ h' = [h EXCEPT ![p] = HandlerIdle]

\* An exception leaves run(): except Exception as e at worker.py:117.
Raise(p, message) ==
    /\ pc' = [pc EXCEPT ![p] = "fail"]
    /\ exc' = [exc EXCEPT ![p] = message]
    /\ h' = [h EXCEPT ![p] = HandlerIdle]
    /\ caught' = [caught EXCEPT ![p] = TRUE]

\* get_api_key(..) returns a key
KeyFound(p) ==
    /\ At(p, "cred")
    /\ h' = [h EXCEPT ![p].hpc = "fetch"]
    /\ UNCHANGED <<jobs, leads, pc, cur, exc, hist>>

\* get_api_key(..) returns nothing: self.fail(..), and run() goes on
KeyMissingGoesOn(p) ==
    /\ At(p, "cred")
    /\ jobs' = Fail(cur[p], KeyMessage(p))
    /\ h' = [h EXCEPT ![p].hpc = "fetch"]
    /\ UNCHANGED <<leads, pc, cur, exc, hist>>

\* get_api_key(..) returns nothing: self.fail(..); return
KeyMissing(p) ==
    /\ At(p, "cred")
    /\ jobs' = Fail(cur[p], KeyMessage(p))
    /\ Return(p)
    /\ UNCHANGED <<leads, exc, hist>>

\* self.fail(..) of the missing key raising
KeyMissingRaises(p) ==
    /\ At(p, "cred")
    /\ Raise(p, StoreError("fail"))
    /\ UNCHANGED <<jobs, leads, cur, <<holders, orphaned, recovered, made, nclaims, survived, sleeping, stale>>>>

DueAlways(processed, cadence) == TRUE

\* if processed % 10 == 0 (find_emails), if processed % 5 == 0 (find_decision_makers)
Due(processed, cadence) == processed % cadence = 0

\* result = query.execute(); leads = [l for l in leads if website]
Fetch(p) ==
    /\ At(p, "fetch")
    /\ LET batch == FetchBatch(cur[p], OutputField(p))
       IN h' = [h EXCEPT ![p].batch = batch,
                         ![p].hpc = IF batch = <<>> THEN "empty" ELSE "progress0"]
    /\ UNCHANGED <<jobs, leads, pc, cur, exc, hist>>

\* if not leads: self.complete({"processed": 0, "message": msg}); return
CompleteEmpty(p) ==
    /\ At(p, "empty")
    /\ jobs' = Complete(cur[p], ResultNone)
    /\ survived' = IF caught[p] THEN survived \cup {cur[p]} ELSE survived
    /\ Return(p)
    /\ UNCHANGED <<leads, exc, holders, orphaned, recovered, made, nclaims, caught, sleeping, stale>>

\* self.update_progress(0, len(leads)); processed = 0; enriched / found = 0
\* find_emails then submits one task per lead to the executor.
FirstProgress(p) ==
    /\ At(p, "progress0")
    /\ jobs' = UpdateProgress(cur[p], Progress2(0, Len(h[p].batch)))
    /\ h' = [h EXCEPT ![p].hpc = IF IsEmails(p) THEN "pool" ELSE "loop",
                      ![p].writes = 1,
                      ![p].task = IF IsEmails(p) THEN [i \in 1..Len(h[p].batch) |-> "Q"]
                                  ELSE <<>>]
    /\ UNCHANGED <<leads, pc, cur, exc, hist>>

\* self.update_progress(processed, len(leads), enriched=.. / found=..)
FinalProgress(p) ==
    /\ At(p, "final")
    /\ jobs' = UpdateProgress(cur[p],
                  Progress3(h[p].processed, Len(h[p].batch), CounterName(p), h[p].count))
    /\ h' = [h EXCEPT ![p].hpc = "complete", ![p].writes = @ + 1]
    /\ UNCHANGED <<leads, pc, cur, exc, hist>>

\* self.complete(..) followed by one more progress report
CompleteThenReport(p) ==
    /\ At(p, "complete")
    /\ jobs' = Complete(cur[p],
                  ResultOf(h[p].processed, Len(h[p].batch), CounterName(p), h[p].count))
    /\ survived' = IF caught[p] THEN survived \cup {cur[p]} ELSE survived
    /\ h' = [h EXCEPT ![p].hpc = "final"]
    /\ UNCHANGED <<leads, pc, cur, exc, holders, orphaned, recovered, made, nclaims, caught,
                   sleeping, stale>>

\* self.complete({"processed": processed, "enriched" / "found": .., "total": len(leads)})
CompleteRun(p) ==
    /\ At(p, "complete")
    /\ jobs' = Complete(cur[p],
                  ResultOf(h[p].processed, Len(h[p].batch), CounterName(p), h[p].count))
    /\ survived' = IF caught[p] THEN survived \cup {cur[p]} ELSE survived
    /\ Return(p)
    /\ UNCHANGED <<leads, exc, holders, orphaned, recovered, made, nclaims, caught, sleeping, stale>>

\* The store call run() is about to make raises (the query, update_progress,
\* complete): nothing is written and the exception leaves run().
StoreCallRaises(p) ==
    /\ pc[p] = "run"
    /\ h[p].hpc \in {"fetch", "empty", "progress0", "final", "complete"}
    /\ Raise(p, StoreError(CASE h[p].hpc = "fetch" -> "select"
                              [] h[p].hpc \in {"empty", "complete"} -> "complete"
                              [] OTHER -> "update_progress"))
    /\ UNCHANGED <<jobs, leads, cur, <<holders, orphaned, recovered, made, nclaims, survived, sleeping, stale>>>>


-----------------------------------------------------------------------------
(* FindEmailsWorker.run(): the thread pool and the as_completed loop *)

\* What _scrape_contacts returns: None (an exception, a timeout, a non-success
\* response, no data), a contact record without any field _map_contacts knows,
\* or a contact record with an email.
ScrapeResults == {"none", "bare", "fields"}

\* _map_contacts(contacts)
MapContacts(contacts) ==
    IF contacts = "fields"
    THEN [fields |-> {"email", "enrichment_status"}, email |-> "found",
          decision_maker_name |-> NULL,
          enrichment_status |-> [NoStatus EXCEPT !.find_emails = "done"]]
    ELSE NoUpdates

MaxWorkersDoubled == 2 * CONCURRENT_REQUESTS

\* ThreadPoolExecutor(max_workers=CONCURRENT_REQUESTS)
MaxWorkers == CONCURRENT_REQUESTS

CountedIfContacts(processed, contacts) ==
    IF contacts = "none" THEN processed ELSE processed + 1

\* processed += 1, before the try that reads the future's result
Counted(processed, contacts) == processed + 1

\* A task of the pool: queued, running (_scrape_contacts in flight), done and not
\* yet seen by as_completed, or seen, with what the loop made of its result.
Consumed == {"failed", "skipped", "stored"}

InFlight(p) == {i \in DOMAIN h[p].task : h[p].task[i] = "R"}

\* A pool thread takes the oldest queued task.
TaskStart(p) ==
    /\ pc[p] = "run"
    /\ h[p].hpc \in {"pool", "drain"}
    /\ Cardinality(InFlight(p)) < MaxWorkers
    /\ \E i \in DOMAIN h[p].task :
          /\ h[p].task[i] = "Q"
          /\ \A k \in 1..(i - 1) : h[p].task[k] # "Q"
          /\ h' = [h EXCEPT ![p].task[i] = "R"]
    /\ UNCHANGED <<jobs, leads, pc, cur, exc, hist>>

\* _scrape_contacts returns in its pool thread.
TaskFinish(p) ==
    /\ pc[p] = "run"
    /\ h[p].hpc \in {"pool", "drain"}
    /\ \E i \in InFlight(p) : h' = [h EXCEPT ![p].task[i] = "D"]
    /\ UNCHANGED <<jobs, leads, pc, cur, exc, hist>>

\* One iteration of `for future in as_completed(futures)`.
\* stored: whether self.update_lead returns (it is inside the try);
\* flushed: whether the update_progress of every tenth record returns.
Consume(p) ==
    /\ At(p, "pool")
    /\ \E i \in DOMAIN h[p].task, contacts \in ScrapeResults :
       \E stored \in (IF MapContacts(contacts).fields = {} THEN {TRUE} ELSE BOOLEAN),
          flushed \in (IF Due(Counted(h[p].processed, contacts), EmailCadence)
                       THEN BOOLEAN ELSE {TRUE}) :
          LET updates == MapContacts(contacts)
              apply == contacts # "none" /\ updates.fields # {} /\ stored
              processed == Counted(h[p].processed, contacts)
              enriched == h[p].count + (IF apply THEN 1 ELSE 0)
              outcome == IF contacts = "none" THEN "failed"
                         ELSE IF apply THEN "stored" ELSE "skipped"
              task == [h[p].task EXCEPT ![i] = outcome]
              flush == Due(processed, EmailCadence)
              last == \A k \in DOMAIN task : task[k] \in Consumed
              after == [h[p] EXCEPT !.task = task, !.processed = processed,
                                    !.count = enriched]
          IN /\ h[p].task[i] = "D"
             /\ leads' = IF apply THEN UpdateLead(h[p].batch[i].id, updates) ELSE leads
             /\ IF flush /\ ~flushed
                THEN /\ h' = [h EXCEPT ![p] = [after EXCEPT !.hpc = "drain", !.pend = "error"]]
                     /\ jobs' = jobs
                ELSE /\ h' = [h EXCEPT ![p] =
                                 [after EXCEPT !.hpc = IF last THEN "final" ELSE "pool",
                                               !.writes = IF flush THEN @ + 1 ELSE @]]
                     /\ jobs' = IF flush
                                THEN UpdateProgress(cur[p],
                                        Progress3(processed, Len(h[p].batch), "enriched", enriched))
                                ELSE jobs
    /\ UNCHANGED <<pc, cur, exc, hist>>

\* KeyboardInterrupt in the main thread inside the with block.
InterruptPool(p) ==
    /\ At(p, "pool")
    /\ h' = [h EXCEPT ![p].hpc = "drain", ![p].pend = "interrupt"]
    /\ UNCHANGED <<jobs, leads, pc, cur, exc, hist>>

\* The with block is left by an exception: executor.shutdown(wait=True) returns
\* once every submitted task has run, and the exception goes on.
Drained(p) ==
    /\ At(p, "drain")
    /\ \A i \in DOMAIN h[p].task : h[p].task[i] \in Consumed \cup {"D"}
    /\ IF h[p].pend = "interrupt"
       THEN /\ pc' = [pc EXCEPT ![p] = "stopped"]
            /\ cur' = [cur EXCEPT ![p] = 0]
            /\ h' = [h EXCEPT ![p] = HandlerIdle]
            /\ UNCHANGED <<exc, caught>>
       ELSE /\ Raise(p, StoreError("update_progress"))
            /\ cur' = cur
    /\ UNCHANGED <<jobs, leads, <<holders, orphaned, recovered, made, nclaims, survived, sleeping, stale>>>>

-----------------------------------------------------------------------------
(* FindDecisionMakersWorker.run(): the loop over the leads *)

\* What _find_from_website returns: a decision maker, or None.
FindResults == {"found", "none"}

\* The update of a lead: {**dm_info, "enrichment_status": {**lead's, stage: "done"}},
\* or {"enrichment_status": {**lead's, stage: "not_found"}}
DecisionMakerUpdates(row, dm_info) ==
    IF dm_info = "found"
    THEN [fields |-> {"decision_maker_name", "enrichment_status"}, email |-> NULL,
          decision_maker_name |-> "found",
          enrichment_status |-> [row.enrichment_status EXCEPT !.find_decision_makers = "done"]]
    ELSE [fields |-> {"enrichment_status"}, email |-> NULL, decision_maker_name |-> NULL,
          enrichment_status |->
              [row.enrichment_status EXCEPT !.find_decision_makers = "not_found"]]

\* One iteration of `for lead in leads`.
\* stored: whether self.update_lead returns; flushed: whether the
\* update_progress of every fifth record returns. Neither call is in a try.
Iterate(p) ==
    /\ At(p, "loop")
    /\ \E dm_info \in FindResults, stored \in BOOLEAN,
          flushed \in (IF Due(h[p].processed + 1, DecisionMakerCadence)
                       THEN BOOLEAN ELSE {TRUE}) :
          LET processed == h[p].processed + 1
              lead == h[p].batch[processed]
              found == h[p].count + (IF dm_info = "found" THEN 1 ELSE 0)
              flush == Due(processed, DecisionMakerCadence)
          IN /\ leads' = IF stored
                         THEN UpdateLead(lead.id, DecisionMakerUpdates(lead.row, dm_info))
                         ELSE leads
             /\ stale' = IF stored /\ \E k \in Stages \ {"find_decision_makers"} :
                                          lead.row.enrichment_status[k]
                                              # leads[lead.id].enrichment_status[k]
                         THEN stale \cup {lead.id} ELSE stale
             /\ IF ~stored \/ (flush /\ ~flushed)
                THEN /\ Raise(p, StoreError(IF stored THEN "update_progress" ELSE "update_lead"))
                     /\ jobs' = jobs
                ELSE /\ h' = [h EXCEPT ![p].processed = processed, ![p].count = found,
                                       ![p].writes = IF flush THEN @ + 1 ELSE @,
                                       ![p].hpc = IF processed = Len(h[p].batch)
                                                  THEN "final" ELSE "loop"]
                     /\ jobs' = IF flush
                                THEN UpdateProgress(cur[p],
                                        Progress3(processed, Len(h[p].batch), "found", found))
                                ELSE jobs
                     /\ UNCHANGED <<pc, exc, caught>>
    /\ UNCHANGED <<cur, <<holders, orphaned, recovered, made, nclaims, survived, sleeping>>>>

-----------------------------------------------------------------------------
(* The specifications *)

\* The rows bulk_jobs may hold at startup: pending jobs, with and without
\* max_leads, jobs a previous process left running, and a job it finished.
JobRows ==
    <<JobRow("find_emails", "pending", NoConfig),
      JobRow("find_emails", "pending", CapConfig),
      JobRow("find_emails", "running", NoConfig),
      JobRow("find_decision_makers", "pending", NoConfig),
      JobRow("find_decision_makers", "pending", CapConfig),
      JobRow("find_decision_makers", "running", NoConfig),
      JobRow("unknown_type", "pending", NoConfig),
      JobRow("unknown_type", "running", NoConfig),
      JobRow("find_emails", "done", NoConfig)>>

\* The pending rows without configuration, one per type.
PendingRows == <<JobRows[1], JobRows[4], JobRows[7]>>

\* The tables of n rows drawn from `rows`. claim_next_bulk_job may return any
\* pending row, so tables that differ in the order of their rows behave alike:
\* one table per multiset of rows.
Tables(rows, n) ==
    {[j \in 1..n |-> rows[f[j]]] :
        f \in {g \in [1..n -> 1..Len(rows)] : \A a, b \in 1..n : a <= b => g[a] <= g[b]}}

\* Leads of one campaign, validated, without email or decision maker; the
\* first row may lack company_website and domain.
LeadTables(n) == {[l \in 1..n |-> LeadRow(l > 1 \/ w)] : w \in BOOLEAN}

InitProcess(procs) ==
    /\ pc = [p \in procs |-> "recover"]
    /\ cur = [p \in procs |-> 0]
    /\ exc = [p \in procs |-> <<>>]
    /\ h = [p \in procs |-> HandlerIdle]
    /\ recovered = [p \in procs |-> "none"]
    /\ nclaims = [p \in procs |-> 0]
    /\ caught = [p \in procs |-> FALSE]
    /\ holders = [j \in DOMAIN jobs |-> <<>>]
    /\ orphaned = {j \in DOMAIN jobs : jobs[j].status = "running"}
    /\ made = {}
    /\ survived = {}
    /\ sleeping = [p \in procs |-> 0]
    /\ stale = {}

\* One dispatcher process, as deployed (worker.py:57), and its queue.
Init ==
    /\ jobs \in Tables(JobRows, NumJobs)
    /\ leads \in LeadTables(NumLeads)
    /\ InitProcess({1})

\* One dispatcher process working through a queue of several jobs.
InitQueue ==
    /\ jobs \in Tables(PendingRows, QueueJobs)
    /\ leads \in {[l \in 1..QueueLeads |-> LeadRow(TRUE)]}
    /\ InitProcess({1})

\* One find_emails job over more leads than the pool has threads; the leads
\* all have a website, or none has.
InitPool ==
    /\ jobs = <<JobRows[1]>>
    /\ leads \in {[l \in 1..PoolLeads |-> LeadRow(w)] : w \in BOOLEAN}
    /\ InitProcess({1})

\* Two dispatcher processes started against one store (a double start).
\* The leads table is empty: every handler finds no lead and completes.
InitMulti ==
    /\ jobs \in Tables(PendingRows, MultiJobs)
    /\ leads = <<>>
    /\ InitProcess({1, 2})

Next ==
    \/ \E p \in Procs : RecoverOrphanedJobs(p)
    \/ \E p \in Procs : ClaimJob(p)
    \/ \E p \in Procs : ClaimNone(p)
    \/ \E p \in Procs : ClaimRaises(p)
    \/ \E p \in Procs : PollSleep(p)
    \/ \E p \in Procs : Backoff(p)
    \/ \E p \in Procs : UnknownJobType(p)
    \/ \E p \in Procs : UnknownJobTypeRaises(p)
    \/ \E p \in Procs : Construct(p)
    \/ \E p \in Procs : ConstructRaises(p)
    \/ \E p \in Procs : FailJob(p)
    \/ \E p \in Procs : FailJobRaises(p)
    \/ \E p \in Procs : Interrupt(p)
    \/ \E p \in Procs : InterruptOutside(p)
    \/ \E p \in Procs : KeyFound(p)
    \/ \E p \in Procs : KeyMissing(p)
    \/ \E p \in Procs : KeyMissingRaises(p)
    \/ \E p \in Procs : Fetch(p)
    \/ \E p \in Procs : CompleteEmpty(p)
    \/ \E p \in Procs : FirstProgress(p)
    \/ \E p \in Procs : FinalProgress(p)
    \/ \E p \in Procs : CompleteRun(p)
    \/ \E p \in Procs : StoreCallRaises(p)
    \/ \E p \in Procs : TaskStart(p)
    \/ \E p \in Procs : TaskFinish(p)
    \/ \E p \in Procs : Consume(p)
    \/ \E p \in Procs : InterruptPool(p)
    \/ \E p \in Procs : Drained(p)
    \/ \E p \in Procs : Iterate(p)

\* The steps of a process that runs find_emails jobs only.
NextPool ==
    \/ \E p \in Procs : RecoverOrphanedJobs(p)
    \/ \E p \in Procs : ClaimJob(p)
    \/ \E p \in Procs : ClaimNone(p)
    \/ \E p \in Procs : ClaimRaises(p)
    \/ \E p \in Procs : PollSleep(p)
    \/ \E p \in Procs : Backoff(p)
    \/ \E p \in Procs : Construct(p)
    \/ \E p \in Procs : ConstructRaises(p)
    \/ \E p \in Procs : FailJob(p)
    \/ \E p \in Procs : FailJobRaises(p)
    \/ \E p \in Procs : Interrupt(p)
    \/ \E p \in Procs : InterruptOutside(p)
    \/ \E p \in Procs : KeyFound(p)
    \/ \E p \in Procs : KeyMissing(p)
    \/ \E p \in Procs : KeyMissingRaises(p)
    \/ \E p \in Procs : Fetch(p)
    \/ \E p \in Procs : CompleteEmpty(p)
    \/ \E p \in Procs : FirstProgress(p)
    \/ \E p \in Procs : FinalProgress(p)
    \/ \E p \in Procs : CompleteRun(p)
    \/ \E p \in Procs : StoreCallRaises(p)
    \/ \E p \in Procs : TaskStart(p)
    \/ \E p \in Procs : TaskFinish(p)
    \/ \E p \in Procs : Consume(p)
    \/ \E p \in Procs : InterruptPool(p)
    \/ \E p \in Procs : Drained(p)

\* The steps of processes whose handlers find no lead.
NextMulti ==
    \/ \E p \in Procs : RecoverOrphanedJobs(p)
    \/ \E p \in Procs : ClaimJob(p)
    \/ \E p \in Procs : ClaimNone(p)
    \/ \E p \in Procs : ClaimRaises(p)
    \/ \E p \in Procs : PollSleep(p)
    \/ \E p \in Procs : Backoff(p)
    \/ \E p \in Procs : UnknownJobType(p)
    \/ \E p \in Procs : UnknownJobTypeRaises(p)
    \/ \E p \in Procs : Construct(p)
    \/ \E p \in Procs : ConstructRaises(p)
    \/ \E p \in Procs : FailJob(p)
    \/ \E p \in Procs : FailJobRaises(p)
    \/ \E p \in Procs : Interrupt(p)
    \/ \E p \in Procs : InterruptOutside(p)
    \/ \E p \in Procs : KeyFound(p)
    \/ \E p \in Procs : KeyMissing(p)
    \/ \E p \in Procs : KeyMissingRaises(p)
    \/ \E p \in Procs : Fetch(p)
    \/ \E p \in Procs : CompleteEmpty(p)
    \/ \E p \in Procs : StoreCallRaises(p)

Spec == Init /\ [][Next]_vars

SpecQueue == InitQueue /\ [][Next]_vars

SpecPool == InitPool /\ [][NextPool]_vars

SpecMulti == InitMulti /\ [][NextMulti]_vars

\* One find_emails or find_decision_makers job over a batch long enough for
\* the every-fifth-record progress write; the leads all have a website, or none.
InitCadence ==
    /\ jobs \in {<<JobRows[1]>>, <<JobRows[4]>>}
    /\ leads \in {[l \in 1..CadenceLeads |-> LeadRow(w)] : w \in BOOLEAN}
    /\ InitProcess({1})

\* The steps of a process whose jobs are all of a registered type.
NextCadence ==
    \/ \E p \in Procs : RecoverOrphanedJobs(p)
    \/ \E p \in Procs : ClaimJob(p)
    \/ \E p \in Procs : ClaimNone(p)
    \/ \E p \in Procs : ClaimRaises(p)
    \/ \E p \in Procs : PollSleep(p)
    \/ \E p \in Procs : Backoff(p)
    \/ \E p \in Procs : Construct(p)
    \/ \E p \in Procs : ConstructRaises(p)
    \/ \E p \in Procs : FailJob(p)
    \/ \E p \in Procs : FailJobRaises(p)
    \/ \E p \in Procs : Interrupt(p)
    \/ \E p \in Procs : InterruptOutside(p)
    \/ \E p \in Procs : KeyFound(p)
    \/ \E p \in Procs : KeyMissing(p)
    \/ \E p \in Procs : KeyMissingRaises(p)
    \/ \E p \in Procs : Fetch(p)
    \/ \E p \in Procs : CompleteEmpty(p)
    \/ \E p \in Procs : FirstProgress(p)
    \/ \E p \in Procs : FinalProgress(p)
    \/ \E p \in Procs : CompleteRun(p)
    \/ \E p \in Procs : StoreCallRaises(p)
    \/ \E p \in Procs : TaskStart(p)
    \/ \E p \in Procs : TaskFinish(p)
    \/ \E p \in Procs : Consume(p)
    \/ \E p \in Procs : InterruptPool(p)
    \/ \E p \in Procs : Drained(p)
    \/ \E p \in Procs : Iterate(p)

SpecCadence == InitCadence /\ [][NextCadence]_vars

\* Two dispatcher processes started against one store, one find_emails and one
\* find_decision_makers job over the same leads.
InitStages ==
    /\ jobs = <<JobRows[1], JobRows[4]>>
    /\ leads = [l \in 1..StageLeads |-> LeadRow(TRUE)]
    /\ InitProcess({1, 2})

\* The steps of the two processes when the dispatcher's own store calls return,
\* every key is configured and no interrupt arrives.
NextStages ==
    \/ \E p \in Procs : RecoverOrphanedJobs(p)
    \/ \E p \in Procs : ClaimJob(p)
    \/ \E p \in Procs : ClaimNone(p)
    \/ \E p \in Procs : PollSleep(p)
    \/ \E p \in Procs : Construct(p)
    \/ \E p \in Procs : FailJob(p)
    \/ \E p \in Procs : KeyFound(p)
    \/ \E p \in Procs : Fetch(p)
    \/ \E p \in Procs : CompleteEmpty(p)
    \/ \E p \in Procs : FirstProgress(p)
    \/ \E p \in Procs : FinalProgress(p)
    \/ \E p \in Procs : CompleteRun(p)
    \/ \E p \in Procs : TaskStart(p)
    \/ \E p \in Procs : TaskFinish(p)
    \/ \E p \in Procs : Consume(p)
    \/ \E p \in Procs : Iterate(p)

SpecStages == InitStages /\ [][NextStages]_vars


-----------------------------------------------------------------------------
(* Properties *)

Status(j) == jobs[j].status

\* C1: claim_next_bulk_job returns a pending job to at most one caller: between
\* two resets of a job to pending by orphan recovery the job is returned at most
\* once, so no claim returns a job that is running.
C1_ClaimIsExclusive == \A j \in JobIds : Len(holders[j]) <= 1

\* One process holds a running job while the other has called the claim
\* operation and was given nothing.
C1_TwoCallers ==
    \E p, q \in Procs :
        /\ p # q
        /\ cur[p] # 0 /\ Status(cur[p]) = "running" /\ holders[cur[p]] = <<p>>
        /\ recovered[q] # "none" /\ pc[q] = "sleep" /\ nclaims[q] = 0

\* C2: once the recovery update has run, and until the loop is given its first
\* job, every job that was running at startup is pending with started_at null
\* and progress {}; the loop claims nothing before recover_orphaned_jobs returned.
C2_RecoveryResetsOrphans ==
    \A p \in Procs :
        /\ (recovered[p] = "ok" /\ nclaims[p] = 0) =>
              \A j \in orphaned :
                  /\ Status(j) = "pending"
                  /\ jobs[j].started_at = NULL
                  /\ jobs[j].progress = EmptyMap
        /\ recovered[p] = "none" => (pc[p] \in {"recover", "raised"} /\ nclaims[p] = 0)

\* Recovery has run over a job that was running, and the loop is about to
\* make its first claim.
C2_OrphanRecovered ==
    /\ orphaned # {}
    /\ recovered[1] = "ok" /\ pc[1] = "claim" /\ nclaims[1] = 0
    /\ \A j \in orphaned : Status(j) = "pending"

\* C3: a job's status changes only pending -> running (by a claim), running ->
\* done, running -> failed, and running -> pending (by startup recovery); a
\* done or failed job keeps its status and a pending job is never finished
\* without being claimed.
C3_StatusTransitions ==
    [][\A j \in JobIds :
          \/ jobs'[j].status = Status(j)
          \/ /\ Status(j) = "pending" /\ jobs'[j].status = "running"
             /\ \E p \in Procs : pc[p] = "claim" /\ cur'[p] = j
          \/ /\ Status(j) = "running" /\ jobs'[j].status \in {"done", "failed"}
             /\ \E p \in Procs : cur[p] = j /\ pc[p] \in {"dispatch", "run", "fail"}
          \/ /\ Status(j) = "running" /\ jobs'[j].status = "pending"
             /\ \E p \in Procs : pc[p] = "recover" /\ pc'[p] = "claim"]_vars

\* A job that was running at startup has been reset, claimed again and
\* finished.
C3_OrphanFinished == \E j \in orphaned : Status(j) \in {"done", "failed"} /\ holders[j] # <<>>

\* C4 as stated: the transition to failed by the unknown-job-type write leaves
\* the job with started_at null.
C4_UnknownTypeFailureClearsStartedAt ==
    [][\A j \in JobIds :
          (jobs[j].type \notin JOB_HANDLERS /\ Status(j) = "running"
              /\ jobs'[j].status = "failed") => jobs'[j].started_at = NULL]_vars

\* C4 as amended: a running job has started_at non-null and a pending job has
\* it null; a job failed by the unknown-job-type write keeps the started_at
\* its claim set.
C4_StartedAtSetByClaim ==
    \A j \in JobIds :
        /\ Status(j) = "running" => jobs[j].started_at # NULL
        /\ Status(j) = "pending" => jobs[j].started_at = NULL
        /\ (Status(j) = "failed" /\ jobs[j].error = UnknownTypeMessage(jobs[j].type))
              => jobs[j].started_at # NULL

\* A job of an unknown type was claimed and failed; an orphan was reset.
C4_FailedKeepsStartedAt ==
    \E j \in JobIds :
        /\ jobs[j].type \notin JOB_HANDLERS
        /\ Status(j) = "failed" /\ jobs[j].started_at = NOW
        /\ j \in orphaned

\* C5: the write of the unknown-job-type branch leaves the job failed with a
\* non-empty error that contains the type, and the loop at its next claim; no
\* handler is ever constructed or run for a job whose type is not registered.
C5_UnknownTypeFails ==
    /\ [][\A p \in Procs :
             (pc[p] = "dispatch" /\ jobs[cur[p]].type \notin JOB_HANDLERS /\ jobs' # jobs) =>
                 /\ jobs'[cur[p]].status = "failed"
                 /\ jobs'[cur[p]].error # <<>>
                 /\ \E i \in DOMAIN jobs'[cur[p]].error :
                        jobs'[cur[p]].error[i] = jobs[cur[p]].type
                 /\ pc'[p] = "claim"
                 /\ made' = made]_vars
    /\ [](\A j \in made : jobs[j].type \in JOB_HANDLERS)
    /\ [](\A p \in Procs : pc[p] \in {"run", "fail"} => jobs[cur[p]].type \in JOB_HANDLERS)

\* A job of an unknown type has been failed and the loop is at its next claim.
C5_UnknownTypeFailed ==
    \E j \in JobIds :
        /\ jobs[j].type = "unknown_type" /\ Status(j) = "failed"
        /\ \E i \in DOMAIN jobs[j].error : jobs[j].error[i] = "unknown_type"
        /\ j \notin made
        /\ pc[1] = "claim" /\ nclaims[1] > 0

\* C6: when run() raises, the write of the except clause leaves the job failed
\* with the exception's message as error and the loop at its next claim; the
\* message is the one the exception carried; and a job whose handler runs to
\* its end in a process that caught an exception before ends done.
C6_HandlerExceptionContained ==
    /\ [][\A p \in Procs :
             (pc[p] = "fail" /\ jobs' # jobs) =>
                 /\ jobs'[cur[p]].status = "failed"
                 /\ jobs'[cur[p]].error = exc[p]
                 /\ pc'[p] = "claim"]_vars
    /\ [](\A p \in Procs :
             pc[p] = "fail" => /\ exc[p] \in {StoreError(c) : c \in StoreCalls}
                               /\ Status(cur[p]) = "running")
    /\ [][\A p \in Procs :
             (caught[p] /\ (At(p, "complete") \/ At(p, "empty")) /\ jobs' # jobs) =>
                 /\ jobs'[cur[p]].status = "done"
                 /\ pc'[p] = "claim"]_vars
    /\ [](\A j \in survived : Status(j) = "done")

\* One job failed with the message of the exception its handler raised, and a
\* job the same process claimed afterwards is done.
C6_LaterJobDone ==
    /\ survived # {}
    /\ \E j \in JobIds :
          /\ Status(j) = "failed"
          /\ jobs[j].error \in {StoreError(c) : c \in StoreCalls}
          /\ j \in made
    /\ pc[1] = "claim"

\* C7: once the loop is running no exception propagates out of main.
C7_NoExceptionLeavesMain ==
    \A p \in Procs : pc[p] = "raised" => recovered[p] = "none"

\* C8: a record whose external call fails is counted like any other: consuming
\* it adds one to processed, leaves the run going and every sibling task as it
\* was (only a store exception or an interrupt ends the sequential loop early); a record whose update was stored shows it in the leads table; a run that
\* reaches its final progress write has counted every record of the batch, and
\* a finished job reports processed = total.
C8_RecordFailureIsolated ==
    /\ [](\A p \in Procs :
             (At(p, "final") \/ At(p, "complete")) =>
                 /\ h[p].processed = Len(h[p].batch)
                 /\ \A i \in DOMAIN h[p].task : h[p].task[i] \in Consumed)
    /\ [][\A p \in Procs :
             At(p, "pool") =>
                 /\ pc'[p] = "run"
                 /\ \A i \in DOMAIN h[p].task :
                        (h[p].task[i] = "D" /\ h'[p].task[i] \in Consumed) =>
                            /\ h'[p].processed = h[p].processed + 1
                            /\ \A k \in DOMAIN h[p].task \ {i} :
                                   h'[p].task[k] = h[p].task[k]
                            /\ h'[p].task[i] = "stored" =>
                                   /\ leads'[h[p].batch[i].id].email = "found"
                                   /\ leads'[h[p].batch[i].id].enrichment_status.find_emails
                                          = "done"]_vars
    /\ [][\A p \in Procs :
             At(p, "loop") =>
                 \/ h'[p] = h[p]
                 \/ pc'[p] = "stopped"
                 \/ /\ pc'[p] = "fail"
                    /\ exc'[p] \in {StoreError("update_lead"), StoreError("update_progress")}
                 \/ /\ pc'[p] = "run"
                    /\ h'[p].processed = h[p].processed + 1
                    /\ leads'[h[p].batch[h'[p].processed].id].enrichment_status
                           .find_decision_makers \in {"done", "not_found"}]_vars
    /\ [](\A j \in JobIds :
             (Status(j) = "done" /\ "total" \in jobs[j].result.keys) =>
                 jobs[j].result.processed = jobs[j].result.total)

\* A find_emails run has consumed every record: the external call failed for
\* one, the update of another was stored.
C8_FailedAndStored ==
    \E p \in Procs :
        /\ At(p, "complete")
        /\ h[p].processed = Len(h[p].batch)
        /\ \E i, k \in DOMAIN h[p].task :
              /\ h[p].task[i] = "failed"
              /\ h[p].task[k] = "stored"
              /\ leads[h[p].batch[k].id].email = "found"

\* C9: no job ends failed because storing one record's update raised.
C9_StoreFailureNeverFailsJob ==
    \A j \in JobIds : Status(j) = "failed" => jobs[j].error # StoreError("update_lead")

\* C10: at most CONCURRENT_REQUESTS calls of _scrape_contacts are in flight.
C10_BoundedInFlight ==
    \A p \in Procs : Cardinality(InFlight(p)) <= CONCURRENT_REQUESTS

\* The pool is full and a submitted record waits for a free thread.
C10_PoolFull ==
    \E p \in Procs :
        /\ Cardinality(InFlight(p)) = CONCURRENT_REQUESTS
        /\ \E i \in DOMAIN h[p].task : h[p].task[i] = "Q"

\* The progress map update_progress last wrote for the job p runs.
Written(p) == jobs[cur[p]].progress

\* C11: the processed value of successive update_progress calls of one run
\* never decreases and is the handler's own count, and the last call before
\* complete reports processed = the number of records of the batch.
C11_ProgressMonotonic ==
    /\ [][\A p \in Procs :
             (pc[p] = "run" /\ pc'[p] = "run" /\ jobs' # jobs) =>
                 /\ jobs'[cur[p]].progress.processed >= Written(p).processed
                 /\ jobs'[cur[p]].progress.processed = h'[p].processed]_vars
    /\ [](\A p \in Procs :
             At(p, "complete") =>
                 /\ Written(p).processed = Len(h[p].batch)
                 /\ Written(p).total = Len(h[p].batch))

\* A find_decision_makers run has written the progress of its fifth record.
C11_FifthRecordReported ==
    \E p \in Procs :
        /\ pc[p] = "run" /\ ~IsEmails(p)
        /\ h[p].processed >= DecisionMakerCadence
        /\ Written(p).processed = DecisionMakerCadence
        /\ "found" \in Written(p).keys

\* The stage whose outcome the handler of p records.
OwnStage(p) == IF IsEmails(p) THEN "find_emails" ELSE "find_decision_makers"

C13_MissingKeyFailsOnly ==
    /\ [][\A p \in Procs :
             (At(p, "cred") /\ jobs' # jobs) =>
                 /\ jobs'[cur[p]].status = "failed"
                 /\ jobs'[cur[p]].error = KeyMessage(p)
                 /\ jobs'[cur[p]].error # <<>>
                 /\ jobs'[cur[p]].progress = jobs[cur[p]].progress
                 /\ jobs'[cur[p]].result = jobs[cur[p]].result
                 /\ leads' = leads
                 /\ pc'[p] = "claim"
                 /\ h'[p] = HandlerIdle]_vars
    /\ [](\A p \in Procs :
             At(p, "cred") => /\ h[p].batch = <<>> /\ h[p].task = <<>>
                              /\ h[p].writes = 0 /\ h[p].processed = 0)
    /\ [](\A j \in JobIds :
             jobs[j].error \in {<<"OpenWeb Ninja API key not configured">>,
                                <<"OpenAI API key not configured">>} =>
                 /\ Status(j) = "failed"
                 /\ jobs[j].result = EmptyMap
                 /\ jobs[j].progress = EmptyMap)

\* A find_decision_makers job failed for its missing key; every lead is as it
\* was and the loop is at its next claim.
C13_FailedForMissingKey ==
    /\ \E j \in JobIds :
          /\ Status(j) = "failed"
          /\ jobs[j].error = <<"OpenAI API key not configured">>
          /\ j \in made
    /\ \A l \in LeadIds : leads[l].enrichment_status.find_decision_makers = ABSENT
    /\ pc[1] = "claim"

\* The leads a job is meant to process: those that pass the query's filters
\* and have a website.
Eligible(p) == {l \in Matching(cur[p], OutputField(p)) : leads[l].website}

\* C14: a job with max_leads = M never holds a batch of more than M leads, and
\* holds one of exactly M whenever at least M eligible leads exist.
C14_BatchIsMaxLeads ==
    \A p \in Procs :
        (pc[p] = "run" /\ h[p].hpc \in {"empty", "progress0"}
            /\ "max_leads" \in jobs[cur[p]].config.keys) =>
                /\ Len(h[p].batch) <= jobs[cur[p]].config.max_leads
                /\ Cardinality(Eligible(p)) >= jobs[cur[p]].config.max_leads
                      => Len(h[p].batch) = jobs[cur[p]].config.max_leads

\* C15: recover_orphaned_jobs is called once, before the loop's first claim
\* call, and not again: the process is at the call only while it has not made
\* it and has claimed nothing, its outcome never changes afterwards, and a job
\* the process claimed is never set back to pending.
C15_RecoveryOnceAtStartup ==
    /\ [](\A p \in Procs :
             pc[p] = "recover" => (recovered[p] = "none" /\ nclaims[p] = 0 /\ cur[p] = 0))
    /\ [](\A p \in Procs :
             pc[p] \notin {"recover", "raised"} => recovered[p] # "none")
    /\ [][\A p \in Procs :
             recovered[p] # "none" => recovered'[p] = recovered[p]]_vars
    /\ [][\A j \in JobIds :
             (Status(j) = "running" /\ holders[j] # <<>>) =>
                 jobs'[j].status # "pending"]_vars

\* An orphan was reset by the startup recovery, claimed by the loop, and is
\* still running after the loop went through its except clause.
C15_ClaimedAfterRecovery ==
    \E j \in orphaned :
        /\ recovered[1] = "ok" /\ nclaims[1] = 1
        /\ Status(j) = "running" /\ holders[j] = <<1>>
        /\ pc[1] = "backoff"

\* C16: the loop enters its except clause only from the claim call, the
\* unknown-type write, the construction of the handler or worker.fail, writing
\* nothing; there it sleeps 2 * POLL_INTERVAL (POLL_INTERVAL when the queue is
\* empty), and the sleep ends in a new claim attempt unless an interrupt ends
\* the process; no exception of those calls leaves main.
C16_StoreErrorBacksOff ==
    /\ [](\A p \in Procs :
             /\ pc[p] = "backoff" => sleeping[p] = 2 * POLL_INTERVAL
             /\ pc[p] = "sleep" => sleeping[p] = POLL_INTERVAL
             /\ pc[p] \notin {"backoff", "sleep"} => sleeping[p] = 0)
    /\ [][\A p \in Procs :
             (pc'[p] = "backoff" /\ pc[p] # "backoff") =>
                 /\ pc[p] \in {"claim", "dispatch", "fail"}
                 /\ jobs' = jobs /\ leads' = leads]_vars
    /\ [][\A p \in Procs :
             pc[p] = "backoff" => pc'[p] \in {"backoff", "claim", "raised"}]_vars
    /\ [][\A p \in Procs :
             pc[p] \in {"claim", "dispatch", "fail"} =>
                 pc'[p] \in {"claim", "sleep", "dispatch", "run", "fail", "backoff",
                             "stopped"}]_vars

\* A store call of the loop raised while it held a job, the backoff has
\* elapsed and the loop is at a new claim attempt.
C16_ClaimAfterBackoff ==
    \E j \in JobIds :
        /\ Status(j) = "running" /\ holders[j] = <<1>>
        /\ cur[1] = 0 /\ pc[1] = "claim" /\ sleeping[1] = 0

\* C17: the step that completes a job is the handler's last: run() has
\* returned, the loop is at its next claim and holds no job, no lead is written
\* in that step, and the row of a done job is never written again.
C17_CompleteIsLast ==
    /\ [][\A p \in Procs :
             (pc[p] = "run" /\ jobs'[cur[p]].status = "done") =>
                 /\ pc'[p] = "claim" /\ cur'[p] = 0 /\ h'[p] = HandlerIdle
                 /\ leads' = leads]_vars
    /\ [][\A j \in JobIds : Status(j) = "done" => jobs'[j] = jobs[j]]_vars
    /\ [](\A p \in Procs : cur[p] # 0 => Status(cur[p]) = "running")

\* A handler ran over its batch and completed its job; the final progress
\* report is the last progress the row holds.
C17_CompletedAfterFinalReport ==
    \E j \in made :
        /\ Status(j) = "done"
        /\ "total" \in jobs[j].result.keys
        /\ jobs[j].progress.processed = jobs[j].result.processed
        /\ jobs[j].result.processed >= 1
        /\ pc[1] = "claim" /\ cur[1] = 0

\* The cadence K of the handler p runs.
Cadence(p) == IF IsEmails(p) THEN EmailCadence ELSE DecisionMakerCadence

C19_NoClaimedJobLeftRunning ==
    \A p \in Procs : \A j \in JobIds :
        (pc[p] = "claim" /\ holders[j] # <<>> /\ holders[j][Len(holders[j])] = p)
            => Status(j) # "running"

\* The counters of a progress or result map are ordered.
Ordered(map) == 0 <= map.extra /\ map.extra <= map.processed /\ map.processed <= map.total

\* C20: every progress map and every result with a total has
\* 0 <= enriched / found <= processed <= total; every progress write of a run
\* carries the batch's length as total; and the counters of find_emails are the
\* number of records consumed and the number of records stored.
C20_CountersOrdered ==
    /\ [](\A j \in JobIds :
             /\ Ordered(jobs[j].progress)
             /\ "total" \in jobs[j].result.keys => Ordered(jobs[j].result))
    /\ [][\A p \in Procs :
             (pc[p] = "run" /\ pc'[p] = "run" /\ jobs' # jobs) =>
                 /\ jobs'[cur[p]].progress.total = Len(h[p].batch)
                 /\ jobs'[cur[p]].progress.processed = h'[p].processed
                 /\ jobs'[cur[p]].progress.extra = h'[p].count]_vars
    /\ [][\A p \in Procs :
             (At(p, "complete") /\ jobs' # jobs) =>
                 /\ jobs'[cur[p]].result.total = Len(h[p].batch)
                 /\ jobs'[cur[p]].result.total = Written(p).total
                 /\ jobs'[cur[p]].result.processed = h[p].processed
                 /\ jobs'[cur[p]].result.extra = h[p].count]_vars
    /\ [](\A p \in Procs :
             (pc[p] = "run" /\ IsEmails(p) /\ h[p].hpc \in {"pool", "drain", "final", "complete"}) =>
                 /\ h[p].processed
                        = Cardinality({i \in DOMAIN h[p].task : h[p].task[i] \in Consumed})
                 /\ h[p].count
                        = Cardinality({i \in DOMAIN h[p].task : h[p].task[i] = "stored"}))

\* A run has completed with some records enriched or found and some not.
C20_SomeEnriched ==
    \E j \in JobIds :
        /\ Status(j) = "done"
        /\ "total" \in jobs[j].result.keys
        /\ 0 < jobs[j].result.extra
        /\ jobs[j].result.extra < jobs[j].result.processed
        /\ jobs[j].result.processed = CadenceLeads

\* worker.run() of process p is executing for the job the claim gave it.
Executing(p) == pc[p] = "run"

\* C21: at no time are two handler executions in flight for the same job: a job
\* one process is executing is never executed by another process as well, also
\* when the other process starts, and runs its orphan recovery, in the meantime.
C21_OneExecutionPerJob ==
    \A p, q \in Procs :
        (p # q /\ Executing(p) /\ Executing(q)) => cur[p] # cur[q]

=============================================================================
